---- MODULE Spec2Model ----
(***************************************************************************)
(* A model of strava-activity-cli: the token lifecycle of StravaClient     *)
(* (client.py), the three click commands that use it (cli.py) and the      *)
(* activity mapping of Activity (models.py).                               *)
(*                                                                         *)
(* Spec        two invocations of the CLI against one credential file      *)
(* MapperSpec  Activity.from_strava_activity and Activity.format_table_row *)
(***************************************************************************)
EXTENDS Integers, Sequences, FiniteSets, TLC

VARIABLES
    file,          \* the credential file on disk
    file0,         \* the credential file as it was before any invocation ran
    pc,            \* each invocation's position in the code
    cmd,           \* each invocation's subcommand
    updates,       \* whether an update invocation was given any field
    err,           \* the exception that ended each invocation ("none" if none)
    seen,          \* the file as each invocation found it when it loaded it
    data,          \* what json.load returned to each invocation (client.py:35)
    nowAt,         \* what time.time() returned to each invocation (client.py:45)
    resp,          \* token_response of each invocation (client.py:62)
    token,         \* self.client.access_token of each invocation
    loads,         \* calls of _load_and_set_token per invocation
    envReads,      \* reads of STRAVA_CLIENT_ID / STRAVA_CLIENT_SECRET per invocation
    refreshCalls,  \* calls of refresh_access_token per invocation
    sentRt,        \* the refresh_token passed to refresh_access_token
    writes,        \* open(token_file, "w") per invocation
    dumped,        \* whether the invocation's json.dump completed
    apiRequests,   \* calls of the activity API per invocation
    apiTokens,     \* the access tokens the activity API calls were made with
    payload,       \* the stravalib activity handed to from_strava_activity
    activity,      \* the Activity it returned
    row,           \* the dict format_table_row returned
    mpc,           \* the mapper's position
    merr           \* the exception the mapper raised ("none" if none)

tokenVars ==
    <<file, file0, pc, cmd, updates, err, seen, data, nowAt, resp, token, loads,
      envReads, refreshCalls, sentRt, writes, dumped, apiRequests, apiTokens>>
mapperVars == <<payload, activity, row, mpc, merr>>
vars == <<tokenVars, mapperVars>>

----------------------------------------------------------------------------
(* Python values: None / a missing dict key is <<>>, a present value v is <<v>>. *)

None == <<>>
Some(v) == <<v>>

\* Python truthiness: None and "" are the falsy optional strings, None and 0 the
\* falsy optional numbers.
Falsy(x) == x = None \/ x = Some("")
FalsyNum(x) == x = None \/ x = Some(0)

----------------------------------------------------------------------------
(* Bounds and program constants *)

Procs == {"p1", "p2"}
Now0 == 1000
MaxTick == 1
Lifetime == 21600
Margin == 300

Times == Now0 .. (Now0 + MaxTick)

----------------------------------------------------------------------------
(* The credential file *)

\* The number of keys of a JSON object plus its braces: orders the byte lengths
\* of the objects the program writes (every value has a fixed width).
ObjSize(at, rt, exp) ==
    1 + (IF at = None THEN 0 ELSE 1) + (IF rt = None THEN 0 ELSE 1)
      + (IF exp = None THEN 0 ELSE 1)

\* A file holding the JSON object {access_token, refresh_token, expires_at}, a key
\* being left out when its value is None.
JsonObject(at, rt, exp) ==
    [kind |-> "Object", at |-> at, rt |-> rt, exp |-> exp, size |-> ObjSize(at, rt, exp)]

\* A file that holds no JSON object: "Missing" (no such file), "Empty" (zero bytes),
\* "Partial" (a proper prefix of an object), "Garbled" (an object followed by the
\* tail of a longer one), "NotJson" (any other text json.load rejects), "NonObject"
\* (well-formed JSON that is not an object, such as []).
OtherFile(kind, size) ==
    [kind |-> kind, at |-> None, rt |-> None, exp |-> None, size |-> size]

EmptyFile == OtherFile("Empty", 0)
NoData == OtherFile("NoData", 0)

\* json.load raises json.JSONDecodeError (a ValueError) on these.
Undecodable == {"Empty", "Partial", "Garbled", "NotJson"}

ValidTriple(f) ==
    f.kind = "Object" /\ ~Falsy(f.at) /\ ~Falsy(f.rt) /\ f.exp # None

FileTokens == {None, Some(""), Some("A0")}
FileRefreshTokens == {None, Some(""), Some("R0")}
FileExpiries ==
    {None, Some(0), Some(Now0 - 1), Some(Now0 + Margin), Some(Now0 + Margin + 1),
     Some(Now0 + Margin + MaxTick + 1)}

InitFiles ==
    {OtherFile("Missing", 0), OtherFile("NotJson", 1), OtherFile("NonObject", 1)}
    \cup {JsonObject(a, r, e) : a \in FileTokens, r \in FileRefreshTokens,
                                e \in FileExpiries}

----------------------------------------------------------------------------
(* The environment and the remote token endpoint *)

EnvVals == {None, Some(""), Some("12345"), Some("abc")}

\* int(client_id) succeeds (client.py:63).
IsInt(v) == v = Some("12345")

NewAccess(p) == Some("A_" \o p)
NewRefresh(p) == Some("R_" \o p)

\* What refresh_access_token may return to invocation p: the fresh triple, or a
\* payload lacking one of its keys.
Responses(p) ==
    LET full == [at |-> NewAccess(p), rt |-> NewRefresh(p), exp |-> Some(Now0 + Lifetime)]
    IN  {full, [full EXCEPT !.at = None], [full EXCEPT !.rt = None],
         [full EXCEPT !.exp = None]}

NoResp == [at |-> None, rt |-> None, exp |-> None]

Complete(r) == r.at # None /\ r.rt # None /\ r.exp # None

----------------------------------------------------------------------------
(* cli.py: get_client *)

\* The exceptions get_client turns into click.Abort (cli.py:29-31); any other
\* leaves the process through main() uncaught.
Caught == {"FileNotFoundError", "ValueError"}

\* A get_client that prints a handled error and goes on with the client.
AfterInitErrorSwallowed(e) == IF e \in Caught THEN "ready" ELSE "Uncaught"

\* Where an invocation goes when StravaClient(...) raises e inside get_client.
AfterInitError(e) == IF e \in Caught THEN "Abort" ELSE "Uncaught"

\* A command that starts over after a failed request.
AfterCommandErrorRetry == "ready"

\* Inside a command's try block every Exception becomes click.Abort
\* (cli.py:107-109, 166-168, 288-290).
AfterCommandError == "Abort"

RaiseInInit(p, e) ==
    /\ pc' = [pc EXCEPT ![p] = AfterInitError(e)]
    /\ err' = [err EXCEPT ![p] = e]

RaiseInCommand(p, e) ==
    /\ pc' = [pc EXCEPT ![p] = AfterCommandError]
    /\ err' = [err EXCEPT ![p] = e]

Commands == {"list", "get", "update"}

\* click dispatches the subcommand, whose first statement is get_client(token_file).
Invoke(p) ==
    /\ pc[p] = "idle"
    /\ \E c \in Commands : cmd' = [cmd EXCEPT ![p] = c]
    /\ pc' = [pc EXCEPT ![p] = "start"]
    /\ UNCHANGED <<mapperVars, seen, updates, file, file0, err, data, nowAt,
                   resp, token, loads, envReads, refreshCalls, sentRt, writes,
                   dumped, apiRequests, apiTokens>>

----------------------------------------------------------------------------
(* client.py: StravaClient._load_and_set_token *)

\* A check that takes an unknown expiry for an expired one.
NeedsRefreshUnknownExpired(exp, now) == exp = None \/ now > exp[1] - Margin

\* client.py:45, "expires_at and time.time() > (expires_at - 300)".
NeedsRefresh(exp, now) == ~FalsyNum(exp) /\ now > exp[1] - Margin

\* client.py:15-32: __init__ calls _load_and_set_token, which first tests that the
\* file exists.
Exists(p) ==
    /\ pc[p] = "start"
    /\ loads' = [loads EXCEPT ![p] = @ + 1]
    /\ IF file.kind = "Missing"
       THEN RaiseInInit(p, "FileNotFoundError") /\ seen' = [seen EXCEPT ![p] = file]
       ELSE pc' = [pc EXCEPT ![p] = "open"] /\ UNCHANGED <<err, seen>>
    /\ UNCHANGED <<mapperVars, updates, file, file0, cmd, data, nowAt, resp,
                   token, envReads, refreshCalls, sentRt, writes, dumped,
                   apiRequests, apiTokens>>

\* client.py:34-48: read and parse the file, check the two tokens, decide on the
\* refresh.
ReadFile(p) ==
    /\ pc[p] = "open"
    /\ seen' = [seen EXCEPT ![p] = file]
    /\ IF file.kind = "Missing"
       THEN RaiseInInit(p, "FileNotFoundError") /\ UNCHANGED <<data, nowAt, token>>
       ELSE IF file.kind \in Undecodable
       THEN RaiseInInit(p, "ValueError") /\ UNCHANGED <<data, nowAt, token>>
       ELSE IF file.kind = "NonObject"
       THEN \* data.get: a list, string or number has no attribute get
            RaiseInInit(p, "AttributeError") /\ UNCHANGED <<data, nowAt, token>>
       ELSE /\ data' = [data EXCEPT ![p] = file]
            /\ IF Falsy(file.at) \/ Falsy(file.rt)
               THEN RaiseInInit(p, "ValueError") /\ UNCHANGED <<nowAt, token>>
               ELSE \E now \in Times :
                      /\ nowAt' = [nowAt EXCEPT ![p] = now]
                      /\ UNCHANGED err
                      /\ IF NeedsRefresh(file.exp, now)
                         THEN pc' = [pc EXCEPT ![p] = "refresh"] /\ UNCHANGED token
                         ELSE /\ token' = [token EXCEPT ![p] = file.at]
                              /\ pc' = [pc EXCEPT ![p] = "ready"]
    /\ UNCHANGED <<mapperVars, updates, file, file0, cmd, resp, loads, envReads,
                   refreshCalls, sentRt, writes, dumped, apiRequests,
                   apiTokens>>

----------------------------------------------------------------------------
(* client.py: StravaClient._refresh_token *)

\* client.py:56-60 and the int(client_id) of line 63.
RefreshEnv(p) ==
    /\ pc[p] = "refresh"
    /\ envReads' = [envReads EXCEPT ![p] = @ + 1]
    /\ \E client_id \in EnvVals, client_secret \in EnvVals :
         IF Falsy(client_id) \/ Falsy(client_secret) \/ ~IsInt(client_id)
         THEN RaiseInInit(p, "ValueError")
         ELSE pc' = [pc EXCEPT ![p] = "call"] /\ UNCHANGED err
    /\ UNCHANGED <<mapperVars, seen, updates, file, file0, cmd, data, nowAt,
                   resp, token, loads, refreshCalls, sentRt, writes, dumped,
                   apiRequests, apiTokens>>

\* The exceptions the remote call may raise: a stravalib/requests error (not caught
\* by get_client) or a ValueError such as requests' JSONDecodeError (caught).
RemoteErrors == {"RemoteError", "ValueError"}

\* client.py:62-66.
RefreshCall(p) ==
    /\ pc[p] = "call"
    /\ refreshCalls' = [refreshCalls EXCEPT ![p] = @ + 1]
    /\ sentRt' = [sentRt EXCEPT ![p] = data[p].rt]
    /\ \/ \E e \in RemoteErrors : RaiseInInit(p, e) /\ UNCHANGED resp
       \/ \E r \in Responses(p) :
            /\ resp' = [resp EXCEPT ![p] = r]
            /\ pc' = [pc EXCEPT ![p] = "trunc"]
            /\ UNCHANGED err
    /\ UNCHANGED <<mapperVars, seen, updates, file, file0, cmd, data, nowAt,
                   token, loads, envReads, writes, dumped, apiRequests,
                   apiTokens>>

\* client.py:69: open(self.token_file, "w") truncates the file in place, or fails
\* (a read-only file) and leaves it alone.
OpenTrunc(p) ==
    /\ pc[p] = "trunc"
    /\ \/ /\ file' = EmptyFile
          /\ writes' = [writes EXCEPT ![p] = @ + 1]
          /\ pc' = [pc EXCEPT ![p] = "dump"]
          /\ UNCHANGED err
       \/ /\ RaiseInInit(p, "OSError")
          /\ UNCHANGED <<file, writes>>
    /\ UNCHANGED <<mapperVars, seen, updates, file0, cmd, data, nowAt, resp,
                   token, loads, envReads, refreshCalls, sentRt, dumped,
                   apiRequests, apiTokens>>

\* The file after this invocation's buffered bytes for r reach the disk at offset 0:
\* r alone when nothing longer was written there since the truncation, else r
\* followed by the tail of what was there.
Overwrite(f, r) ==
    IF ObjSize(r.at, r.rt, r.exp) >= f.size
    THEN JsonObject(r.at, r.rt, r.exp)
    ELSE OtherFile("Garbled", f.size)

\* A proper prefix of the object reaches the disk.
PartialOver(f) ==
    IF f.size <= 1 THEN OtherFile("Partial", 1) ELSE OtherFile("Garbled", f.size)

\* client.py:70-72: json.dump and the close of the with block, then the token is
\* set from the response. A failure while writing (disk full, an unserializable
\* value) leaves what had reached the disk.
Dump(p) ==
    /\ pc[p] = "dump"
    /\ \/ /\ file' = Overwrite(file, resp[p])
          /\ dumped' = [dumped EXCEPT ![p] = TRUE]
          /\ IF resp[p].at = None
             THEN RaiseInInit(p, "KeyError") /\ UNCHANGED token
             ELSE /\ token' = [token EXCEPT ![p] = resp[p].at]
                  /\ pc' = [pc EXCEPT ![p] = "ready"]
                  /\ UNCHANGED err
       \/ /\ file' \in {file, PartialOver(file)}
          /\ RaiseInInit(p, "OSError")
          /\ UNCHANGED <<dumped, token>>
    /\ UNCHANGED <<mapperVars, seen, updates, file0, cmd, data, nowAt, resp,
                   loads, envReads, refreshCalls, sentRt, writes, apiRequests,
                   apiTokens>>

----------------------------------------------------------------------------
(* cli.py: the commands, after get_client returned *)

ApiCall(p) ==
    /\ apiRequests' = [apiRequests EXCEPT ![p] = @ + 1]
    /\ apiTokens' = [apiTokens EXCEPT ![p] = @ \cup {token[p]}]

\* cli.py:83-99: list parses --after and --before.
ListParse(p) ==
    /\ pc[p] = "ready" /\ cmd[p] = "list"
    /\ \/ pc' = [pc EXCEPT ![p] = "list_fetch"] /\ UNCHANGED err
       \/ /\ pc' = [pc EXCEPT ![p] = "Abort"]
          /\ err' = [err EXCEPT ![p] = "BadDate"]
    /\ UNCHANGED <<mapperVars, seen, updates, file, file0, cmd, data, nowAt,
                   resp, token, loads, envReads, refreshCalls, sentRt, writes,
                   dumped, apiRequests, apiTokens>>

\* cli.py:101-142: get_activities and the mapping of what it returned.
ListFetch(p) ==
    /\ pc[p] = "list_fetch"
    /\ ApiCall(p)
    /\ \/ pc' = [pc EXCEPT ![p] = "Success"] /\ UNCHANGED err
       \/ \E e \in {"ApiError", "MappingError"} : RaiseInCommand(p, e)
    /\ UNCHANGED <<mapperVars, seen, updates, file, file0, cmd, data, nowAt,
                   resp, token, loads, envReads, refreshCalls, sentRt, writes,
                   dumped>>

\* cli.py:161-217: get_activity and the mapping of what it returned.
GetFetch(p) ==
    /\ pc[p] = "ready" /\ cmd[p] = "get"
    /\ ApiCall(p)
    /\ \/ pc' = [pc EXCEPT ![p] = "Success"] /\ UNCHANGED err
       \/ \E e \in {"ApiError", "MappingError"} : RaiseInCommand(p, e)
    /\ UNCHANGED <<mapperVars, seen, updates, file, file0, cmd, data, nowAt,
                   resp, token, loads, envReads, refreshCalls, sentRt, writes,
                   dumped>>

\* cli.py:254-271: update returns at once when no field was given.
UpdateBuild(p) ==
    /\ pc[p] = "ready" /\ cmd[p] = "update"
    /\ \E given \in {"none", "some"} :
         /\ updates' = [updates EXCEPT ![p] = given]
         /\ pc' = [pc EXCEPT ![p] = IF given = "none" THEN "Success" ELSE "update_put"]
    /\ UNCHANGED <<mapperVars, seen, file, file0, cmd, err, data, nowAt, resp,
                   token, loads, envReads, refreshCalls, sentRt, writes, dumped,
                   apiRequests, apiTokens>>

\* cli.py:275: update_activity.
UpdatePut(p) ==
    /\ pc[p] = "update_put"
    /\ ApiCall(p)
    /\ \/ pc' = [pc EXCEPT ![p] = "update_fetch"] /\ UNCHANGED err
       \/ RaiseInCommand(p, "ApiError")
    /\ UNCHANGED <<mapperVars, seen, updates, file, file0, cmd, data, nowAt,
                   resp, token, loads, envReads, refreshCalls, sentRt, writes,
                   dumped>>

\* cli.py:278-287: get_activity of the updated activity and its mapping.
UpdateFetch(p) ==
    /\ pc[p] = "update_fetch"
    /\ ApiCall(p)
    /\ \/ pc' = [pc EXCEPT ![p] = "Success"] /\ UNCHANGED err
       \/ \E e \in {"ApiError", "MappingError"} : RaiseInCommand(p, e)
    /\ UNCHANGED <<mapperVars, seen, updates, file, file0, cmd, data, nowAt,
                   resp, token, loads, envReads, refreshCalls, sentRt, writes,
                   dumped>>

----------------------------------------------------------------------------
(* The specification of the invocations *)

MapperIdle ==
    /\ payload = <<>> /\ activity = <<>> /\ row = <<>>
    /\ mpc = "idle" /\ merr = "none"

InvocationsInit(files) ==
    /\ file \in files
    /\ file0 = file
    /\ pc = [p \in Procs |-> "idle"]
    /\ cmd = [p \in Procs |-> "none"]
    /\ updates = [p \in Procs |-> "unset"]
    /\ seen = [p \in Procs |-> NoData]
    /\ err = [p \in Procs |-> "none"]
    /\ data = [p \in Procs |-> NoData]
    /\ nowAt = [p \in Procs |-> 0]
    /\ resp = [p \in Procs |-> NoResp]
    /\ token = [p \in Procs |-> None]
    /\ loads = [p \in Procs |-> 0]
    /\ envReads = [p \in Procs |-> 0]
    /\ refreshCalls = [p \in Procs |-> 0]
    /\ sentRt = [p \in Procs |-> None]
    /\ writes = [p \in Procs |-> 0]
    /\ dumped = [p \in Procs |-> FALSE]
    /\ apiRequests = [p \in Procs |-> 0]
    /\ apiTokens = [p \in Procs |-> {}]

Init == InvocationsInit(InitFiles) /\ MapperIdle

Next ==
    \/ \E p \in Procs : Invoke(p)
    \/ \E p \in Procs : Exists(p)
    \/ \E p \in Procs : ReadFile(p)
    \/ \E p \in Procs : RefreshEnv(p)
    \/ \E p \in Procs : RefreshCall(p)
    \/ \E p \in Procs : OpenTrunc(p)
    \/ \E p \in Procs : Dump(p)
    \/ \E p \in Procs : ListParse(p)
    \/ \E p \in Procs : ListFetch(p)
    \/ \E p \in Procs : GetFetch(p)
    \/ \E p \in Procs : UpdateBuild(p)
    \/ \E p \in Procs : UpdatePut(p)
    \/ \E p \in Procs : UpdateFetch(p)

Spec == Init /\ [][Next]_vars

----------------------------------------------------------------------------
(* models.py: the values of a stravalib activity's attributes.              *)
(* <<"missing">> is an attribute the object does not have, <<"none">> is    *)
(* None; a number carries its Python type. Floats are modelled at integral  *)
(* values, a timedelta by its milliseconds.                                 *)

Missing == <<"missing">>
PyNone == <<"none">>
PyInt(n) == <<"int", n>>
PyFloat(n) == <<"float", n>>
PyString(s) == <<"str", s>>
PyBool(b) == <<"bool", b>>
Timedelta(ms) == <<"timedelta", ms>>
Root(s) == <<"root", s>>

IsMissing(v) == v[1] = "missing"
IsNone(v) == v[1] = "none"

\* bool(v) of Python.
Truthy(v) ==
    CASE v[1] = "none" -> FALSE
      [] v[1] \in {"int", "float", "timedelta"} -> v[2] # 0
      [] v[1] = "str" -> v[2] # ""
      [] v[1] = "bool" -> v[2]
      [] OTHER -> TRUE

\* float(v) of a number.
ToFloat(v) == PyFloat(v[2])

\* models.py:44-49.
get_seconds(value) ==
    IF IsNone(value) THEN PyInt(0)
    ELSE IF value[1] = "timedelta" THEN PyInt(value[2] \div 1000)
    ELSE PyInt(value[2])

\* models.py:52-56; str(None) is "None".
activity_type(t) ==
    IF t[1] = "root" THEN PyString(t[2])
    ELSE IF IsNone(t) THEN PyString("None")
    ELSE t

\* models.py:62 and 65-67: "float(x) if x else 0.0".
RequiredFloat(v) == IF Truthy(v) THEN ToFloat(v) ELSE PyFloat(0)

\* models.py:70-75 and 77: "float(x) if x else None".
OptionalFloat(v) == IF Truthy(v) THEN ToFloat(v) ELSE PyNone

\* getattr(activity, name, default).
GetAttr(v, default) == IF IsMissing(v) THEN default ELSE v

\* The attributes from_strava_activity reads as activity.<name>: a missing one
\* raises AttributeError.
DirectFields ==
    {"type", "id", "name", "distance", "moving_time", "elapsed_time",
     "total_elevation_gain", "start_date", "start_date_local", "average_speed",
     "max_speed", "average_heartrate", "max_heartrate"}

\* The attributes it reads with getattr.
GetattrFields == {"description", "calories", "gear_id", "trainer", "commute", "private"}

Fields == DirectFields \cup GetattrFields

\* models.py:32-82. The result is <<"ok", Activity>> or <<"raise", exception>>.
from_strava_activity(a) ==
    IF \E f \in DirectFields : IsMissing(a[f])
    THEN <<"raise", "AttributeError">>
    ELSE <<"ok",
           [id |-> a.id,
            name |-> a.name,
            type |-> activity_type(a.type),
            distance |-> RequiredFloat(a.distance),
            moving_time |-> get_seconds(a.moving_time),
            elapsed_time |-> get_seconds(a.elapsed_time),
            total_elevation_gain |-> RequiredFloat(a.total_elevation_gain),
            start_date |-> a.start_date,
            start_date_local |-> a.start_date_local,
            average_speed |-> OptionalFloat(a.average_speed),
            max_speed |-> OptionalFloat(a.max_speed),
            average_heartrate |-> OptionalFloat(a.average_heartrate),
            max_heartrate |-> OptionalFloat(a.max_heartrate),
            description |-> GetAttr(a.description, PyNone),
            calories |-> OptionalFloat(GetAttr(a.calories, PyNone)),
            gear_id |-> GetAttr(a.gear_id, PyNone),
            trainer |-> GetAttr(a.trainer, PyBool(FALSE)),
            commute |-> GetAttr(a.commute, PyBool(FALSE)),
            private |-> GetAttr(a.private, PyBool(FALSE))]>>

----------------------------------------------------------------------------
(* models.py: Activity.format_table_row *)

\* models.py:119.
hours(moving_time) == moving_time \div 3600

\* Minutes with the leftover seconds rounded up.
minutes_rounded_up(moving_time) == ((moving_time % 3600) + 59) \div 60

\* models.py:120.
minutes(moving_time) == (moving_time % 3600) \div 60

\* models.py:122.
time_str(moving_time) ==
    IF hours(moving_time) > 0
    THEN ToString(hours(moving_time)) \o "h " \o ToString(minutes(moving_time)) \o "m"
    ELSE ToString(minutes(moving_time)) \o "m"

TwoDigits(n) == IF n < 10 THEN "0" \o ToString(n) ELSE ToString(n)

\* models.py:118 and 129: f"{distance / 1000:.2f} km" of a whole number of metres
\* that is no tie between two hundredths.
distance_str(metres) ==
    LET cents == (metres + 5) \div 10
    IN  ToString(cents \div 100) \o "." \o TwoDigits(cents % 100) \o " km"

\* models.py:131: f"{total_elevation_gain:.0f} m" of a whole number of metres.
elevation_str(metres) == ToString(metres) \o " m"

\* str(v) of an int, a str or None.
PyStr(v) ==
    IF IsNone(v) THEN "None" ELSE IF v[1] = "int" THEN ToString(v[2]) ELSE v[2]

\* models.py:112-132. None has no strftime.
format_table_row(act) ==
    IF IsNone(act.start_date_local)
    THEN <<"raise", "AttributeError">>
    ELSE <<"ok",
           [ID |-> PyStr(act.id),
            Date |-> act.start_date_local[2],
            Name |-> act.name,
            Type |-> act.type,
            Distance |-> distance_str(act.distance[2]),
            Time |-> time_str(act.moving_time[2]),
            Elevation |-> elevation_str(act.total_elevation_gain[2])]>>

----------------------------------------------------------------------------
(* The activities handed to the mapper *)

MaxTime == 7300

BasePayload ==
    [id |-> PyInt(7), name |-> PyString("Morning Run"), type |-> PyString("Run"),
     distance |-> PyFloat(5000), moving_time |-> PyInt(3665),
     elapsed_time |-> PyInt(3700), total_elevation_gain |-> PyFloat(123),
     start_date |-> PyString("2024-05-01 06:30"),
     start_date_local |-> PyString("2024-05-01 08:30"),
     average_speed |-> PyFloat(3), max_speed |-> PyFloat(5),
     average_heartrate |-> PyFloat(140), max_heartrate |-> PyFloat(171),
     description |-> PyString("easy"), calories |-> PyFloat(300),
     gear_id |-> PyString("g1"), trainer |-> PyBool(FALSE),
     commute |-> PyBool(TRUE), private |-> PyBool(FALSE)]

\* The optional fields, grouped as the activity API reports or omits them.
OptionalGroups ==
    [description |-> {"description"}, calories |-> {"calories"},
     gear_id |-> {"gear_id"}, speeds |-> {"average_speed", "max_speed"},
     heartrates |-> {"average_heartrate", "max_heartrate"},
     flags |-> {"trainer", "commute", "private"}]

\* BasePayload with the fields of the groups gs set to v.
Without(b, gs, v) ==
    [f \in Fields |-> IF \E g \in gs : f \in OptionalGroups[g] THEN v ELSE b[f]]

IdValues == {Missing, PyNone, PyInt(7), PyString("7")}
NameValues == {Missing, PyNone, PyString("Morning Run"), PyInt(5)}

\* Every kind of id and name, with every choice of optional groups left out,
\* as a missing attribute or as None.
IdentityPayloads ==
    {Without([BasePayload EXCEPT !.id = i, !.name = n], gs, v) :
        i \in IdValues, n \in NameValues,
        gs \in SUBSET (DOMAIN OptionalGroups), v \in {Missing, PyNone}}

OptionalMetrics ==
    {"average_speed", "max_speed", "average_heartrate", "max_heartrate", "calories"}
MetricValues == {PyNone, PyInt(0), PyFloat(0), PyFloat(3)}

MetricPayloads ==
    {[f \in Fields |-> IF f \in OptionalMetrics THEN m[f] ELSE BasePayload[f]] :
        m \in [OptionalMetrics -> MetricValues]}

RequiredMetrics == {"distance", "total_elevation_gain"}
RequiredValues == {PyNone, PyInt(0), PyFloat(0), PyInt(12), PyFloat(5000)}

RequiredPayloads ==
    {[f \in Fields |-> IF f \in RequiredMetrics THEN m[f] ELSE BasePayload[f]] :
        m \in [RequiredMetrics -> RequiredValues]}

TimeValues ==
    {PyNone, Timedelta(3661000), Timedelta(3661900), Timedelta(59999)}
    \cup {PyInt(t) : t \in 0 .. MaxTime}

TimePayloads == {[BasePayload EXCEPT !.moving_time = t] : t \in TimeValues}

OtherPayloads ==
    {[BasePayload EXCEPT !.type = t, !.start_date_local = d] :
        t \in {PyString("Run"), Root("Run"), PyNone, Missing},
        d \in {PyString("2024-05-01 08:30"), PyNone}}

Payloads ==
    IdentityPayloads \cup MetricPayloads \cup RequiredPayloads \cup TimePayloads
    \cup OtherPayloads

----------------------------------------------------------------------------
(* The specification of the mapper *)

\* cli.py:106, 165, 279: Activity.from_strava_activity(a).
Normalize ==
    /\ mpc = "idle"
    /\ \E a \in Payloads :
         LET r == from_strava_activity(a)
         IN  /\ payload' = a
             /\ IF r[1] = "ok"
                THEN activity' = r[2] /\ mpc' = "mapped" /\ UNCHANGED merr
                ELSE merr' = r[2] /\ mpc' = "failed" /\ UNCHANGED activity
    /\ UNCHANGED <<row, tokenVars>>

\* cli.py:131: activity.format_table_row().
FormatRow ==
    /\ mpc = "mapped"
    /\ LET r == format_table_row(activity)
       IN  IF r[1] = "ok"
           THEN row' = r[2] /\ mpc' = "shown" /\ UNCHANGED merr
           ELSE merr' = r[2] /\ mpc' = "row_failed" /\ UNCHANGED row
    /\ UNCHANGED <<payload, activity, tokenVars>>

MapperInit == InvocationsInit({OtherFile("Missing", 0)}) /\ MapperIdle

MapperNext == Normalize \/ FormatRow

MapperSpec == MapperInit /\ [][MapperNext]_vars

----------------------------------------------------------------------------
(* Properties of the invocations (checked under Spec) *)

Failed == {"Abort", "Uncaught"}

\* Invocation p's load succeeded: it read an object with both tokens.
Loaded(p) == data[p].kind = "Object" /\ ~Falsy(data[p].at) /\ ~Falsy(data[p].rt)

NoOtherWrote(p) == \A q \in Procs \ {p} : writes[q] = 0

\* The exceptions of the Token Manager, as opposed to those of a command.
TokenErrors ==
    {"FileNotFoundError", "ValueError", "AttributeError", "KeyError", "OSError",
     "RemoteError"}

\* Invocation p is between the start of its refresh and the end of its write.
Refreshing(p) == pc[p] \in {"refresh", "call", "trunc", "dump"}

\* C1: when invocations race on a credential file that held a valid triple, every
\* read of it by any invocation observes a complete triple (never an empty,
\* truncated or partly written file), and once the refresh attempts are over,
\* successful or failed, the file parses as a valid triple.
C1_RewriteIsAtomic ==
    ValidTriple(file0) =>
        /\ \A p \in Procs : seen[p] # NoData => ValidTriple(seen[p])
        /\ (\A p \in Procs : ~Refreshing(p)) => ValidTriple(file)

\* Invocation p's refresh attempt is over and failed: it ended in an error without
\* a token, or the endpoint returned an incomplete payload.
RefreshFailed(p) ==
    /\ envReads[p] > 0
    /\ ~Refreshing(p)
    /\ \/ pc[p] \in Failed /\ token[p] = None
       \/ resp[p] # NoResp /\ ~Complete(resp[p])

\* C2: after a failed refresh attempt (missing client id or secret, a failing
\* remote call, an incomplete payload, a failure while writing) the credential
\* file holds exactly what it held before the attempt.
C2_FailedRefreshKeepsFile ==
    \A p \in Procs : (RefreshFailed(p) /\ NoOtherWrote(p)) => file = file0

\* expires_at is in the past or no more than 300 seconds after now.
Expiring(exp, now) == exp # None /\ exp[1] <= now + Margin

\* C3: a loaded record whose expires_at is in the past or at most 300 s ahead
\* (now + 300 and 0 included) is refreshed with the stored refresh_token before
\* the client is used; the token in memory is the response's and the file holds
\* exactly the response.
C3_ExpiringRecordIsRefreshed ==
    \A p \in Procs :
        (Loaded(p) /\ Expiring(data[p].exp, nowAt[p]) /\ token[p] # None) =>
            /\ refreshCalls[p] = 1
            /\ sentRt[p] = data[p].rt
            /\ token[p] = resp[p].at
            /\ NoOtherWrote(p) => file = JsonObject(resp[p].at, resp[p].rt, resp[p].exp)

\* expires_at is absent or more than 300 seconds after now.
Fresh(exp, now) == exp = None \/ exp[1] > now + Margin

\* C4: a loaded record whose expires_at is more than 300 s ahead, or absent, causes
\* no refresh call, no read of the client id/secret and no write of the file, and
\* its access_token is the one set on the client and used for every request.
C4_FreshRecordIsUsedAsIs ==
    \A p \in Procs :
        (Loaded(p) /\ Fresh(data[p].exp, nowAt[p])) =>
            /\ refreshCalls[p] = 0
            /\ envReads[p] = 0
            /\ writes[p] = 0
            /\ ~Refreshing(p)
            /\ token[p] = data[p].at
            /\ apiTokens[p] \subseteq {data[p].at}
            /\ NoOtherWrote(p) => file = file0

C4_Witness ==
    \E p \in Procs :
        /\ Loaded(p)
        /\ data[p].exp # None
        /\ data[p].exp[1] = nowAt[p] + Margin + 1
        /\ pc[p] = "Success"
        /\ apiTokens[p] = {data[p].at}

\* The file invocation p found is not loadable.
Unloadable(f) == f.kind # "Object" \/ Falsy(f.at) \/ Falsy(f.rt)

\* C5: loading fails with the not-found error for a missing file and with the
\* invalid-credentials error for a file that is no well-formed JSON object or
\* lacks (or has an empty) access_token or refresh_token; then there is no
\* refresh call, no write and no access token.
C5_LoadFailures ==
    \A p \in Procs :
        (seen[p] # NoData /\ Unloadable(seen[p])) =>
            /\ err[p] = IF seen[p].kind = "Missing" THEN "FileNotFoundError"
                                                   ELSE "ValueError"
            /\ refreshCalls[p] = 0
            /\ writes[p] = 0
            /\ token[p] = None

RequestsOf(c, given) ==
    IF c = "update" THEN (IF given = "some" THEN 2 ELSE 0) ELSE 1

C10_RequestOnlyAfterToken ==
    \A p \in Procs :
        /\ (apiRequests[p] > 0 \/ pc[p] \in {"ready", "list_fetch", "update_put",
                                            "update_fetch", "Success"}) =>
              /\ ~Falsy(token[p])
              /\ None \notin apiTokens[p]
              /\ err[p] \notin TokenErrors
              /\ refreshCalls[p] > 0 => (dumped[p] /\ token[p] = resp[p].at)
        /\ err[p] \in TokenErrors => (apiRequests[p] = 0 /\ pc[p] \in Failed)
        /\ (pc[p] \in Failed /\ token[p] = None) => apiRequests[p] = 0

C10_Witness ==
    \E p, q \in Procs :
        /\ refreshCalls[p] = 1 /\ dumped[p] /\ Complete(resp[p])
        /\ pc[p] = "Success" /\ apiRequests[p] = 1
        /\ err[q] = "ValueError" /\ pc[q] = "Abort" /\ apiRequests[q] = 0

----------------------------------------------------------------------------
(* Properties of the mapper (checked under MapperSpec) *)

Normalized == mpc \in {"mapped", "shown", "row_failed"}

IsZero(v) == v[1] \in {"int", "float"} /\ v[2] = 0

\* C7: an optional metric given as 0 or 0.0 maps to the number zero and only an
\* absent one to None; an absent or falsy distance or elevation maps to 0.0.
C7_ZeroIsNotAbsent ==
    Normalized =>
        /\ \A m \in OptionalMetrics :
             LET src == GetAttr(payload[m], PyNone)
             IN  /\ IsZero(src) => activity[m] = PyFloat(0)
                 /\ IsNone(src) => activity[m] = PyNone
        /\ \A m \in RequiredMetrics :
             ~Truthy(payload[m]) => activity[m] = PyFloat(0)

ValidIdentity(a) == a.id[1] = "int" /\ a.name[1] = "str"

\* The fields that are not optional are all there.
CorePresent(a) ==
    \A f \in {"type", "distance", "moving_time", "elapsed_time",
              "total_elevation_gain", "start_date", "start_date_local"} :
        ~IsMissing(a[f])

\* C8: normalize fails, returning no Activity, when id or name is absent, None or
\* of the wrong kind, and succeeds for a valid id and name whichever optional
\* fields are missing.
C8_IdentityIsRequired ==
    mpc # "idle" =>
        /\ ~ValidIdentity(payload) => mpc = "failed"
        /\ (ValidIdentity(payload) /\ CorePresent(payload)) => Normalized

\* C9: the row's Time is "{h}h {m}m" with h = t div 3600 and m = (t mod 3600) div 60
\* when h > 0, and "{m}m" with m = t div 60 when h = 0: 3665 gives "1h 1m", 125
\* gives "2m", any t below 60 gives "0m".
C9_TimeField ==
    mpc = "shown" =>
        LET t == activity.moving_time[2]
            h == t \div 3600
        IN  /\ row.Time = IF h > 0
                          THEN ToString(h) \o "h " \o ToString((t % 3600) \div 60) \o "m"
                          ELSE ToString(t \div 60) \o "m"
            /\ t = 3665 => row.Time = "1h 1m"
            /\ t = 125 => row.Time = "2m"
            /\ t < 60 => row.Time = "0m"

C9_Witness ==
    /\ mpc = "shown"
    /\ payload = BasePayload
    /\ activity.moving_time = PyInt(3665)
    /\ row.Time = "1h 1m"

====
